---------------------------- MODULE Spec2Model ----------------------------
(***************************************************************************)
(* MathExprWeb: the request pipeline of solver_utils.py (mini-syntax      *)
(* splitting, parameter parsing, dispatch to the algebra engine, result    *)
(* formatting), the process/queue timeout harness used by integrate_expr,  *)
(* and the /api/solve handler of app.py.                                   *)
(*                                                                         *)
(* Text is a sequence of one-character strings.  The algebra engine        *)
(* (sympy) is an external collaborator: whether a call of it succeeds or   *)
(* raises, and what it returns, is chosen nondeterministically (the        *)
(* "oracle" o of each operation).  An engine result is identified with     *)
(* its str() form.                                                         *)
(***************************************************************************)
EXTENDS Integers, Sequences, FiniteSets, TLC

(***************************************************************************)
(* Bounds of the model                                                     *)
(***************************************************************************)
\* most comma-separated words in a generated parameter part
MaxParams == 3
\* most history rows kept in the model of the histories table
MaxHistory == 1

(***************************************************************************)
(* Python string primitives used by the source                            *)
(***************************************************************************)
\* str.strip() treats these as whitespace
IsSpace(c) == c = " "

RECURSIVE LStrip(_)
LStrip(s) == IF s # <<>> /\ IsSpace(Head(s)) THEN LStrip(Tail(s)) ELSE s

RECURSIVE RStrip(_)
RStrip(s) ==
    IF s # <<>> /\ IsSpace(s[Len(s)]) THEN RStrip(SubSeq(s, 1, Len(s) - 1)) ELSE s

\* s.strip()
strip(s) == RStrip(LStrip(s))

\* c in s
Contains(s, c) == \E i \in 1..Len(s) : s[i] = c

\* s.find(c), 1-based; 0 when c does not occur
IndexOf(s, c) ==
    IF Contains(s, c)
    THEN CHOOSE i \in 1..Len(s) : s[i] = c /\ \A j \in 1..(i - 1) : s[j] # c
    ELSE 0

\* s.split(c, maxsplit); maxsplit = -1 is s.split(c)
RECURSIVE split(_, _, _)
split(s, c, maxsplit) ==
    LET i == IndexOf(s, c) IN
    IF i = 0 \/ maxsplit = 0
    THEN <<s>>
    ELSE <<SubSeq(s, 1, i - 1)>>
         \o split(SubSeq(s, i + 1, Len(s)), c,
                  IF maxsplit < 0 THEN maxsplit ELSE maxsplit - 1)

\* sep.join(parts)
RECURSIVE join(_, _)
join(parts, sep) ==
    IF parts = <<>> THEN <<>>
    ELSE IF Len(parts) = 1 THEN parts[1]
    ELSE parts[1] \o sep \o join(Tail(parts), sep)

Digits == {"0", "1", "2", "3", "4", "5", "6", "7", "8", "9"}

DigitVal(c) ==
    CASE c = "0" -> 0 [] c = "1" -> 1 [] c = "2" -> 2 [] c = "3" -> 3
      [] c = "4" -> 4 [] c = "5" -> 5 [] c = "6" -> 6 [] c = "7" -> 7
      [] c = "8" -> 8 [] c = "9" -> 9

RECURSIVE DecimalVal(_)
DecimalVal(s) ==
    IF s = <<>> THEN 0
    ELSE 10 * DecimalVal(SubSeq(s, 1, Len(s) - 1)) + DigitVal(s[Len(s)])

\* s.isdigit()
isdigit(s) == s # <<>> /\ \A i \in 1..Len(s) : s[i] \in Digits

\* a lenient int(s), which reads a text that is no integer as 1: the fault
\* the order check of differentiate must exclude
int_lenient(s) ==
    LET t      == strip(s)
        signed == t # <<>> /\ Head(t) \in {"+", "-"}
        body   == IF signed THEN Tail(t) ELSE t
    IN  [ok  |-> TRUE,
         val |-> IF ~isdigit(body) THEN 1
                 ELSE IF signed /\ Head(t) = "-" THEN 0 - DecimalVal(body)
                 ELSE DecimalVal(body)]

\* int(s): ok is FALSE where Python raises ValueError
int(s) ==
    LET t      == strip(s)
        signed == t # <<>> /\ Head(t) \in {"+", "-"}
        body   == IF signed THEN Tail(t) ELSE t
        valid  == isdigit(body)
    IN  [ok  |-> valid,
         val |-> IF ~valid THEN 0
                 ELSE IF signed /\ Head(t) = "-" THEN 0 - DecimalVal(body)
                 ELSE DecimalVal(body)]

(***************************************************************************)
(* Characters and tokens                                                   *)
(***************************************************************************)
Lower == <<"a", "b", "c", "d", "e", "f", "g", "h", "i", "j", "k", "l", "m",
           "n", "o", "p", "q", "r", "s", "t", "u", "v", "w", "x", "y", "z">>

Upper == <<"A", "B", "C", "D", "E", "F", "G", "H", "I", "J", "K", "L", "M",
           "N", "O", "P", "Q", "R", "S", "T", "U", "V", "W", "X", "Y", "Z">>

Letters == {Lower[i] : i \in 1..26} \cup {Upper[i] : i \in 1..26}

\* c.lower() of one character
LowerChar(c) ==
    IF \E i \in 1..26 : Upper[i] = c
    THEN Lower[CHOOSE i \in 1..26 : Upper[i] = c]
    ELSE c

\* s.lower()
lower(s) == [i \in 1..Len(s) |-> LowerChar(s[i])]

\* The unicode superscripts of superscript_map, written sup0 .. sup9, sup-
superscript_map(ch) ==
    CASE ch = "0" -> "sup0" [] ch = "1" -> "sup1" [] ch = "2" -> "sup2"
      [] ch = "3" -> "sup3" [] ch = "4" -> "sup4" [] ch = "5" -> "sup5"
      [] ch = "6" -> "sup6" [] ch = "7" -> "sup7" [] ch = "8" -> "sup8"
      [] ch = "9" -> "sup9" [] ch = "-" -> "sup-"
      [] OTHER -> ch

\* The fixed visual error marker that opens the module's error messages
Marker == "[X]"

\* Python's None in a slot of a result triple
None == <<"<None>">>

\* str(e) of an exception raised by the engine
Exc == "<exception text>"

\* traceback.format_exc()
Traceback == "<traceback>"

(***************************************************************************)
(* normal_to_unicode_expr: the display form of an engine string            *)
(***************************************************************************)
\* re.sub(r'\*\*\((.*?)\)', r'^(\1)', expr)
RECURSIVE ParenPowers(_)
ParenPowers(s) ==
    IF s = <<>> THEN <<>>
    ELSE IF /\ Len(s) >= 4
            /\ s[1] = "*" /\ s[2] = "*" /\ s[3] = "("
            /\ Contains(SubSeq(s, 4, Len(s)), ")")
         THEN LET rest == SubSeq(s, 4, Len(s))
                  j    == IndexOf(rest, ")")
              IN  <<"^", "(">> \o SubSeq(rest, 1, j)
                  \o ParenPowers(SubSeq(rest, j + 1, Len(rest)))
         ELSE <<Head(s)>> \o ParenPowers(Tail(s))

\* the class [a-zA-Z0-9\.\-]
PowerChar(c) == c \in Letters \cup Digits \cup {".", "-"}

\* length of the longest prefix of s inside the class
RECURSIVE PowerRun(_)
PowerRun(s) ==
    IF s # <<>> /\ PowerChar(Head(s)) THEN 1 + PowerRun(Tail(s)) ELSE 0

numeric_power_to_unicode(power) ==
    IF \/ isdigit(power)
       \/ (power # <<>> /\ Head(power) = "-" /\ isdigit(Tail(power)))
    THEN [i \in 1..Len(power) |-> superscript_map(power[i])]
    ELSE <<"^">> \o power

\* re.sub(r'\*\*([a-zA-Z0-9\.\-]+)', numeric_power_to_unicode, expr)
RECURSIVE SimplePowers(_)
SimplePowers(s) ==
    IF s = <<>> THEN <<>>
    ELSE IF /\ Len(s) >= 3
            /\ s[1] = "*" /\ s[2] = "*"
            /\ PowerChar(s[3])
         THEN LET rest == SubSeq(s, 3, Len(s))
                  n    == PowerRun(rest)
              IN  numeric_power_to_unicode(SubSeq(rest, 1, n))
                  \o SimplePowers(SubSeq(rest, n + 1, Len(rest)))
         ELSE <<Head(s)>> \o SimplePowers(Tail(s))

\* s.replace(c, '') for one character c
RECURSIVE Remove(_, _)
Remove(s, c) ==
    IF s = <<>> THEN <<>>
    ELSE IF Head(s) = c THEN Remove(Tail(s), c)
    ELSE <<Head(s)>> \o Remove(Tail(s), c)

normal_to_unicode_expr(expr) == Remove(SimplePowers(ParenPowers(expr)), "*")

(***************************************************************************)
(* The notation normalizer: the text rewriting of _parse_expression_string *)
(***************************************************************************)
Superscripts ==
    {"sup0", "sup1", "sup2", "sup3", "sup4", "sup5", "sup6", "sup7", "sup8",
     "sup9", "sup-"}

\* one character of str.translate(unicode_sup_map)
unicode_sup_map(ch) ==
    CASE ch = "sup0" -> "0" [] ch = "sup1" -> "1" [] ch = "sup2" -> "2"
      [] ch = "sup3" -> "3" [] ch = "sup4" -> "4" [] ch = "sup5" -> "5"
      [] ch = "sup6" -> "6" [] ch = "sup7" -> "7" [] ch = "sup8" -> "8"
      [] ch = "sup9" -> "9" [] ch = "sup-" -> "-"
      [] OTHER -> ch

\* the names insert_implicit_multiplication_rules protects, in its order
func_names ==
    << <<"s","i","n">>, <<"c","o","s">>, <<"t","a","n">>, <<"c","o","t">>,
       <<"s","e","c">>, <<"c","s","c">>,
       <<"a","s","i","n">>, <<"a","c","o","s">>, <<"a","t","a","n">>,
       <<"a","c","o","t">>, <<"a","s","e","c">>, <<"a","c","s","c">>,
       <<"a","r","c","s","i","n">>, <<"a","r","c","c","o","s">>,
       <<"a","r","c","t","a","n">>, <<"a","r","c","c","o","t">>,
       <<"a","r","c","s","e","c">>, <<"a","r","c","c","s","c">>,
       <<"s","i","n","h">>, <<"c","o","s","h">>, <<"t","a","n","h">>,
       <<"e","x","p">>, <<"l","o","g">>, <<"s","q","r","t">>,
       <<"A","b","s">>, <<"e","r","f">>, <<"e","r","f","c">> >>

\* the placeholder f"__FN{i}__" of func_names[i + 1], kept as one element
placeholder ==
    <<"__FN0__", "__FN1__", "__FN2__", "__FN3__", "__FN4__", "__FN5__",
      "__FN6__", "__FN7__", "__FN8__", "__FN9__", "__FN10__", "__FN11__",
      "__FN12__", "__FN13__", "__FN14__", "__FN15__", "__FN16__", "__FN17__",
      "__FN18__", "__FN19__", "__FN20__", "__FN21__", "__FN22__", "__FN23__",
      "__FN24__", "__FN25__", "__FN26__">>

Placeholders == {placeholder[i] : i \in 1..Len(placeholder)}

\* the alternatives of func_pattern
func_pattern ==
    {func_names[i] : i \in (1..12) \cup (19..25)} \cup {<<"a","b","s">>}

\* the regex class \w: a placeholder begins and ends with an underscore, the
\* unicode superscript digits are alphanumeric, the superscript minus is not
WordChar(c) ==
    c \in Letters \cup Digits \cup {"_"} \cup Placeholders
          \cup (Superscripts \ {"sup-"})

\* s.startswith(lit)
StartsWith(s, lit) == Len(s) >= Len(lit) /\ SubSeq(s, 1, Len(lit)) = lit

\* s with its first n characters dropped
Drop(s, n) == SubSeq(s, n + 1, Len(s))

\* a regex \b between the character prev ("" at the start) and the text s
Boundary(prev, s) ==
    (prev # "" /\ WordChar(prev)) # (s # <<>> /\ WordChar(Head(s)))

RECURSIVE SupRun(_)
SupRun(s) ==
    IF s # <<>> /\ Head(s) \in Superscripts THEN 1 + SupRun(Tail(s)) ELSE 0

\* re.sub(r'([a-zA-Z0-9)])([sup]+)', replace, expr)
RECURSIVE unicode_to_normal_expr(_)
unicode_to_normal_expr(expr) ==
    IF expr = <<>> THEN <<>>
    ELSE IF /\ Len(expr) >= 2
            /\ expr[1] \in Letters \cup Digits \cup {")"}
            /\ expr[2] \in Superscripts
         THEN LET rest == Tail(expr)
                  n    == SupRun(rest)
              IN  <<expr[1], "^">>
                  \o [i \in 1..n |-> unicode_sup_map(rest[i])]
                  \o unicode_to_normal_expr(Drop(rest, n))
         ELSE <<Head(expr)>> \o unicode_to_normal_expr(Tail(expr))

\* s.replace(old, new) for a non-empty old
RECURSIVE replace(_, _, _)
replace(s, old, new) ==
    IF s = <<>> THEN <<>>
    ELSE IF StartsWith(s, old) THEN new \o replace(Drop(s, Len(old)), old, new)
    ELSE <<Head(s)>> \o replace(Tail(s), old, new)

\* re.sub(r'(?<=[behind])-\s*(names)\(', r'-1*\1(', s), prev the character
\* before s
RECURSIVE UnaryMinus(_, _, _, _)
UnaryMinus(prev, s, behind, names) ==
    IF s = <<>> THEN <<>>
    ELSE LET after == LStrip(Tail(s))
             hit   == {n \in names : StartsWith(after, n \o <<"(">>)}
         IN  IF Head(s) = "-" /\ prev \in behind /\ hit # {}
             THEN LET n == CHOOSE n \in hit : TRUE
                  IN  <<"-", "1", "*">> \o n \o <<"(">>
                      \o UnaryMinus("(", Drop(after, Len(n) + 1), behind, names)
             ELSE <<Head(s)>> \o UnaryMinus(Head(s), Tail(s), behind, names)

RECURSIVE DigitRun(_)
DigitRun(s) ==
    IF s # <<>> /\ Head(s) \in Digits THEN 1 + DigitRun(Tail(s)) ELSE 0

\* the length of the greedy match of \d+\.?\d* at the start of s
NumberLen(s) ==
    LET a == DigitRun(s)
        b == IF a > 0 /\ Len(s) > a /\ s[a + 1] = "." THEN 1 ELSE 0
    IN  IF a = 0 THEN 0 ELSE a + b + DigitRun(Drop(s, a + b))

\* re.sub(rf'(\d+\.?\d*)\s*({func_pattern})', r'\1*\2', s)
RECURSIVE CoefficientRule(_)
CoefficientRule(s) ==
    IF s = <<>> THEN <<>>
    ELSE LET last(k, after) == IF Len(after) < Len(s) - k THEN " " ELSE s[k]
             hit(k, after) ==
                 {n \in func_pattern :
                    /\ StartsWith(after, n)
                    /\ Boundary(last(k, after), after)
                    /\ Boundary(n[Len(n)], Drop(after, Len(n)))}
             sub(k, after, names) ==
                 IF k > 0 /\ names # {}
                 THEN SubSeq(s, 1, k) \o <<"*">> \o (CHOOSE n \in names : TRUE)
                      \o CoefficientRule(Drop(after,
                                               Len(CHOOSE n \in names : TRUE)))
                 ELSE <<Head(s)>> \o CoefficientRule(Tail(s))
             at(k, after) == sub(k, after, hit(k, after))
             from(k) == at(k, LStrip(Drop(s, k)))
         IN  from(NumberLen(s))

\* re.sub(rf'\b{name}\s*\(', f'{token}(', s), prev the character before s
RECURSIVE Protect(_, _, _, _)
Protect(prev, s, name, token) ==
    IF s = <<>> THEN <<>>
    ELSE LET after == LStrip(Drop(s, Len(name)))
         IN  IF /\ StartsWith(s, name)
                /\ Boundary(prev, s)
                /\ after # <<>> /\ Head(after) = "("
             THEN <<token, "(">> \o Protect("(", Tail(after), name, token)
             ELSE <<Head(s)>> \o Protect(Head(s), Tail(s), name, token)

\* the loop over func_names, from name i on
RECURSIVE ProtectAll(_, _)
ProtectAll(s, i) ==
    IF i > Len(func_names) THEN s
    ELSE ProtectAll(Protect("", s, func_names[i], placeholder[i]), i + 1)

\* re.sub(r'([first])([second])', r'\1*\2', s)
RECURSIVE PairRule(_, _, _)
PairRule(s, first, second) ==
    IF s = <<>> THEN <<>>
    ELSE IF Len(s) >= 2 /\ s[1] \in first /\ s[2] \in second
         THEN <<s[1], "*", s[2]>> \o PairRule(Drop(s, 2), first, second)
         ELSE <<Head(s)>> \o PairRule(Tail(s), first, second)

\* the loop of expr_str.replace(token + '(', name + '(')
RECURSIVE Restore(_)
Restore(s) ==
    IF s = <<>> THEN <<>>
    ELSE IF Len(s) >= 2 /\ s[1] \in Placeholders /\ s[2] = "("
         THEN func_names[CHOOSE i \in 1..Len(placeholder) : placeholder[i] = s[1]]
              \o <<"(">> \o Restore(Drop(s, 2))
         ELSE <<Head(s)>> \o Restore(Tail(s))

insert_implicit_multiplication_rules(expr_str) ==
    LET fix1  == UnaryMinus("", expr_str, {"=", " ", "(", "+", "-", "*", "/"},
                            {<<"a","b","s">>, <<"A","b","s">>})
        fix2  == CoefficientRule(fix1)
        prot  == ProtectAll(fix2, 1)
        r1    == PairRule(prot, Digits, Letters \cup {"("})
        r2    == PairRule(r1, {")"}, Letters \cup Digits \cup {"("})
        r3    == PairRule(r2, Letters \cup Digits, {"("})
    IN  Restore(r3)

\* the text _parse_expression_string hands to parse_expr, from the stripped
\* expression
Normalize(expr_str) ==
    LET a == unicode_to_normal_expr(expr_str)
        b == replace(a, <<"^">>, <<"*", "*">>)
        c == replace(b, <<"a","b","s","(">>, <<"A","b","s","(">>)
        d == UnaryMinus("", c, {"=", " ", "(", "+", "-", "*", "/", ","},
                        {<<"A","b","s">>})
    IN  insert_implicit_multiplication_rules(d)

(***************************************************************************)
(* The algebra engine and the result triples                               *)
(***************************************************************************)
\* the str() forms of the results the engine may return
EngineResults ==
    { <<"x", "*", "*", "2">>, <<"2", "*", "x">>, <<"A", " ", "+", " ", "C">> }

\* the side conditions a transform may return with its result
EngineConditions == { <<>>, << <<"a", ">", "0">> >> }

\* One outcome of every engine call an operation makes: parse / parse2 the
\* first and second parse succeed, eng the operation's own engine work
\* returns ("ok") or raises ("raise"), inner a best-effort sub-step succeeds,
\* flag an engine predicate the operation branches on, latex the typesetting
\* succeeds, res / res2 the results, conds the side conditions
Oracles(P, P2, E, I, F, L, R, R2, Cn) ==
    [parse : P, parse2 : P2, eng : E, inner : I, flag : F, latex : L,
     res : R, res2 : R2, conds : Cn]

OneResult == {<<"2", "*", "x">>}

\* (display, latex, error) returned by an operation function
Triple(d, l, e) == [kind |-> "triple", display |-> d, latex |-> l, error |-> e]

\* return None, None, msg
Error(msg) == Triple(None, None, msg)

\* an exception left the operation function
Raised == [kind |-> "raised", display |-> None, latex |-> None, error |-> None]

\* no operation function was called
NoResult == [kind |-> "none", display |-> None, latex |-> None, error |-> None]

\* an entry of the log of engine calls: the function, its text argument,
\* the variable and the order or count it was given
Call(fn, arg, var, n) == [fn |-> fn, arg |-> arg, var |-> var, n |-> n]

\* what an operation function did: its result, the engine calls it made and
\* the branch it took
Outcome(res, calls, branch) == [res |-> res, calls |-> calls, branch |-> branch]

\* sympy.latex(expr)
sympy_latex(expr) == <<"<latex>">> \o expr

\* sympy.symbols(names): ok is FALSE where it raises ValueError ("no symbols
\* given", "missing symbol between commas")
symbols(names) ==
    LET t      == strip(names)
        as_seq == t # <<>> /\ t[Len(t)] = ","
        body   == IF as_seq THEN RStrip(SubSeq(t, 1, Len(t) - 1)) ELSE t
        pieces == split(body, ",", -1)
    IN  [ok   |-> body # <<>> /\ \A i \in 1..Len(pieces) : strip(pieces[i]) # <<>>,
         name |-> body]

\* sympify(text): FALSE where it raises; the empty string never parses
sympify(text, ok) == ok /\ strip(text) # <<>>

\* free_symbols that finds nothing: the fault the inference of the
\* integration variable must exclude
free_symbols_none(expr) == {}

\* expr.free_symbols of a parsed text whose identifiers are single letters
FreeSymbols(expr) == {expr[i] : i \in 1..Len(expr)} \cap (Letters \ {"E"})

_parse_expression_string(expression_string, ok) ==
    LET parse_expr(expr_processed) ==
            IF ok
            THEN [expr |-> expr_processed, err |-> None,
                  calls |-> <<Call("parse_expr", expr_processed, <<>>, 0)>>]
            ELSE [expr |-> None,
                  calls |-> <<Call("parse_expr", expr_processed, <<>>, 0)>>,
                  err |-> <<Marker, "Error parsing expression: ", Exc>>]
        from(expr_str) ==
            IF expr_str = <<>>
            THEN [expr |-> None, calls |-> <<>>,
                  err |-> <<Marker, "Error: Expression cannot be empty.">>]
            ELSE parse_expr(Normalize(expr_str))
    IN  from(strip(expression_string))

\* sympy_result is the tuple (result_expr, conds...) when conds is not empty
_format_output(result_expr, conds, latexOk) ==
    LET display_conditions ==
            IF conds = <<>> THEN <<>>
            ELSE <<" (Conditions: ">> \o join(conds, <<", ">>) \o <<")">>
        display == normal_to_unicode_expr(result_expr)
        latex   == IF latexOk THEN sympy_latex(result_expr) ELSE result_expr
    IN  Triple(display \o display_conditions, latex, None)

(***************************************************************************)
(* The operation functions on one expression                               *)
(***************************************************************************)
expand_expr(expression_string, o) ==
    LET parsed(p) ==
            IF p.err # None THEN Outcome(Error(p.err), p.calls, "parse_error")
            ELSE IF o.eng = "raise"
            THEN Outcome(Error(<<Marker, "Error during expansion: ", Exc>>),
                         p.calls \o <<Call("expand", p.expr, <<>>, 0)>>,
                         "engine_error")
            ELSE Outcome(_format_output(o.res, <<>>, o.latex),
                         p.calls \o <<Call("expand", p.expr, <<>>, 0)>>, "ok")
    IN  parsed(_parse_expression_string(expression_string, o.parse))

\* result is factor(simplified) where that succeeds (o.inner), simplified
\* where it raises
simplify_expr(expression_string, o) ==
    LET parsed(p) ==
            IF p.err # None THEN Outcome(Error(p.err), p.calls, "parse_error")
            ELSE IF o.eng = "raise"
            THEN Outcome(Error(<<Marker, "Error during simplification: ", Exc>>),
                         p.calls \o <<Call("simplify", p.expr, <<>>, 0)>>,
                         "engine_error")
            ELSE Outcome(_format_output(IF o.inner THEN o.res2 ELSE o.res,
                                        <<>>, o.latex),
                         p.calls \o <<Call("simplify", p.expr, <<>>, 0)>>, "ok")
    IN  parsed(_parse_expression_string(expression_string, o.parse))

factor_expr(expression_string, o) ==
    LET parsed(p) ==
            IF p.err # None THEN Outcome(Error(p.err), p.calls, "parse_error")
            ELSE IF o.eng = "raise"
            THEN Outcome(Error(<<Marker, "Error during factorization: ", Exc,
                                 ". Not all expressions can be factored.">>),
                         p.calls \o <<Call("factor", p.expr, <<>>, 0)>>,
                         "engine_error")
            ELSE Outcome(_format_output(o.res, <<>>, o.latex),
                         p.calls \o <<Call("factor", p.expr, <<>>, 0)>>, "ok")
    IN  parsed(_parse_expression_string(expression_string, o.parse))

\* re.sub(r'\s*\+\s*C\s*$', '', expr_str, flags=re.IGNORECASE)
StripPlusC(expr_str) ==
    LET a == RStrip(expr_str)
        b == IF a # <<>> /\ a[Len(a)] \in {"C", "c"}
             THEN RStrip(SubSeq(a, 1, Len(a) - 1)) ELSE <<>>
    IN  IF b # <<>> /\ b[Len(b)] = "+"
        THEN RStrip(SubSeq(b, 1, Len(b) - 1))
        ELSE expr_str

\* s is the result of the guarded logcombine and factor steps where they
\* succeed (o.inner), of trigsimp where they raise
resimplify_expr(expression_string, o) ==
    LET parsed(p) ==
            IF p.err # None THEN Outcome(Error(p.err), p.calls, "parse_error")
            ELSE IF o.eng = "raise"
            THEN Outcome(Error(<<Marker, "Error during re-simplification: ", Exc>>),
                         p.calls \o <<Call("simplify", p.expr, <<>>, 0)>>,
                         "engine_error")
            ELSE Outcome(_format_output(IF o.inner THEN o.res2 ELSE o.res,
                                        <<>>, o.latex),
                         p.calls \o <<Call("simplify", p.expr, <<>>, 0)>>, "ok")
    IN  parsed(_parse_expression_string(StripPlusC(strip(expression_string)),
                                        o.parse))

(***************************************************************************)
(* substitute                                                              *)
(***************************************************************************)
\* the loop over the assignments: "ok", "format" (the return inside the loop,
\* at the assignment named) or "raise" (symbols or sympify raised)
RECURSIVE ParseAssignments(_, _)
ParseAssignments(assignments, ok) ==
    IF assignments = <<>> THEN [st |-> "ok", at |-> <<>>]
    ELSE LET assignment == strip(Head(assignments))
             var_val    == split(assignment, "=", 1)
         IN  IF assignment = <<>> THEN ParseAssignments(Tail(assignments), ok)
             ELSE IF Len(var_val) # 2 THEN [st |-> "format", at |-> assignment]
             ELSE IF \/ ~symbols(strip(var_val[1])).ok
                     \/ ~sympify(strip(var_val[2]), ok)
                  THEN [st |-> "raise", at |-> assignment]
             ELSE ParseAssignments(Tail(assignments), ok)

substitute_expr(full_input_string, o) ==
    LET subs(calls) ==
            IF o.eng = "raise"
            THEN Outcome(Error(<<Marker, "Error during substitution: ", Exc>>),
                         calls, "engine_error")
            ELSE IF o.flag
            THEN \* no free symbols are left: str(evalf), sympy_latex(evalf)
                 IF o.latex
                 THEN Outcome(Triple(o.res, sympy_latex(o.res), None), calls, "numeric")
                 ELSE Outcome(Error(<<Marker, "Error during substitution: ", Exc>>),
                              calls, "latex_error")
            ELSE Outcome(_format_output(o.res, <<>>, o.latex), calls, "ok")
        body(expression_string, given, a) ==
            IF expression_string = <<>>
            THEN Outcome(Error(<<Marker, "Error: Expression part cannot be empty.">>),
                         <<>>, "empty")
            ELSE IF ~sympify(expression_string, o.parse)
            THEN Outcome(Error(<<Marker, "Error parsing expression: ", Exc>>),
                         <<Call("sympify", expression_string, <<>>, 0)>>,
                         "parse_error")
            ELSE IF ~given
            THEN Outcome(Error(<<Marker, "Error: No substitution values provided.">>),
                         <<Call("sympify", expression_string, <<>>, 0)>>,
                         "no_params")
            ELSE IF a.st = "format"
            THEN Outcome(Error(<<Marker, "Error: Invalid format: '">> \o a.at
                               \o <<"'. Expected 'var=value'.">>),
                         <<Call("sympify", expression_string, <<>>, 0)>>,
                         "param_error")
            ELSE IF a.st = "raise"
            THEN Outcome(Error(<<Marker, "Error parsing variable assignments: ", Exc>>),
                         <<Call("sympify", expression_string, <<>>, 0)>>,
                         "param_error")
            ELSE subs(<<Call("sympify", expression_string, <<>>, 0),
                        Call("subs", expression_string, <<>>, 0)>>)
        from(parts) ==
            body(strip(parts[1]),
                 Len(parts) > 1 /\ strip(parts[2]) # <<>>,
                 ParseAssignments(split(strip(parts[2]), ",", -1), o.parse2))
    IN  from(split(full_input_string, ";", 1))

(***************************************************************************)
(* differentiate                                                           *)
(***************************************************************************)
\* a parameter list cut to its first entry: the fault the count of the
\* parameters of differentiate must exclude
StripFirst(parts) == <<strip(parts[1])>>

\* [p.strip() for p in parts]
StripAll(parts) == [i \in 1..Len(parts) |-> strip(parts[i])]

\* nothing in it is guarded: an engine or typesetting failure leaves it as an
\* exception
_general_chain_rule_diff(o) ==
    IF o.eng = "raise" \/ ~o.latex THEN Raised
    ELSE Triple(normal_to_unicode_expr(o.res \o <<" ", "=", " ">> \o o.res2),
                sympy_latex(o.res) \o <<" ", "=", " ">> \o sympy_latex(o.res2),
                None)

differentiate_expr(full_input_string, o) ==
    LET \* F_expr = lhs - rhs, differentiated by both variables
        implicit(calls) ==
            IF o.eng = "raise" THEN Outcome(Raised, calls, "implicit")
            ELSE IF o.flag
            THEN Outcome(Error(<<Marker, "Error: Cannot solve implicitly. Derivative w.r.t. the dependent variable is zero.">>),
                         calls, "implicit")
            ELSE Outcome(_format_output(o.res, <<>>, o.latex), calls, "implicit")
        F_expr(lhs, rhs) ==
            <<"(">> \o lhs.expr \o <<")", "-", "(">> \o rhs.expr \o <<")">>
        \* the equation branch, from its two parsed sides
        equation(lhs, rhs, given, parts) ==
            IF lhs.err # None
            THEN Outcome(Error(<<Marker, "Error parsing LHS: ">> \o lhs.err),
                         lhs.calls, "parse_error")
            ELSE IF rhs.err # None
            THEN Outcome(Error(<<Marker, "Error parsing RHS: ">> \o rhs.err),
                         lhs.calls \o rhs.calls, "parse_error")
            ELSE IF ~given
            THEN Outcome(Error(<<Marker, "Error: For an equation, please specify at least the differentiation variable (e.g., Eq; t) or (Eq; dep, indep).">>),
                         lhs.calls \o rhs.calls, "no_params")
            ELSE IF Len(parts) = 1
            THEN Outcome(_general_chain_rule_diff(o),
                         lhs.calls \o rhs.calls
                         \o <<Call("diff", lhs.expr, parts[1], 1),
                              Call("diff", rhs.expr, parts[1], 1)>>,
                         "total")
            ELSE implicit(lhs.calls \o rhs.calls
                          \o <<Call("diff", F_expr(lhs, rhs), parts[2], 1),
                               Call("diff", F_expr(lhs, rhs), parts[1], 1)>>)
        sides(eq_parts, given, var_part) ==
            equation(_parse_expression_string(eq_parts[1], o.parse),
                     IF Len(eq_parts) > 1 /\ strip(eq_parts[2]) # <<>>
                     THEN _parse_expression_string(eq_parts[2], o.parse2)
                     ELSE [expr |-> <<"0">>, err |-> None,
                           calls |-> <<Call("sympify", <<"0">>, <<>>, 0)>>],
                     given, StripAll(split(var_part, ",", 2)))
        \* the explicit branch, from the parsed expression
        derivative(calls) ==
            IF o.eng = "raise"
            THEN Outcome(Error(<<Marker, "Error during differentiation: ", Exc>>),
                         calls, "explicit")
            ELSE Outcome(_format_output(o.res, <<>>, o.latex), calls, "explicit")
        explicit(p, var, order, var_parts_split) ==
            IF p.err # None
            THEN Outcome(Error(p.err), p.calls, "explicit")
            ELSE IF ~order.ok
            THEN Outcome(Error(<<Marker, "Error: Invalid order '">>
                               \o var_parts_split[2]
                               \o <<"'. Must be an integer.">>),
                         p.calls, "explicit")
            ELSE IF order.val <= 0
            THEN Outcome(Error(<<Marker, "Error: Differentiation order must be a positive integer.">>),
                         p.calls, "explicit")
            ELSE derivative(p.calls \o <<Call("diff", p.expr, var, order.val)>>)
        params(p, given, var_parts_split) ==
            explicit(p,
                     IF given THEN var_parts_split[1] ELSE <<"x">>,
                     IF given /\ Len(var_parts_split) > 1
                     THEN int(var_parts_split[2]) ELSE [ok |-> TRUE, val |-> 1],
                     var_parts_split)
        body(expr_or_equation_string, given, var_part) ==
            IF expr_or_equation_string = <<>>
            THEN Outcome(Error(<<Marker, "Error: Expression or equation cannot be empty.">>),
                         <<>>, "empty")
            ELSE IF Contains(expr_or_equation_string, "=")
            THEN sides(split(expr_or_equation_string, "=", 1), given, var_part)
            ELSE params(_parse_expression_string(expr_or_equation_string, o.parse),
                        given, StripAll(split(var_part, ",", 1)))
        from(parts) ==
            body(strip(parts[1]), Len(parts) > 1 /\ strip(parts[2]) # <<>>,
                 strip(parts[2]))
    IN  from(split(full_input_string, ";", 1))

(***************************************************************************)
(* The integral transforms                                                 *)
(***************************************************************************)
\* (p, v_in, v_out, err); raised where symbols() raises, which nothing here
\* catches
_parse_transform_request(s, o) ==
    LET fail(p, e, r) == [p |-> None, v_in |-> None, v_out |-> None, err |-> e,
                          raised |-> r, calls |-> p.calls]
        vars_of(p, v_in, v_out) ==
            IF ~v_in.ok \/ ~v_out.ok THEN fail(p, None, TRUE)
            ELSE [p |-> p.expr, v_in |-> v_in.name, v_out |-> v_out.name,
                  err |-> None, raised |-> FALSE, calls |-> p.calls]
        body(parts, p, var_parts) ==
            IF p.err # None THEN fail(p, p.err, FALSE)
            ELSE IF Len(parts) < 2 \/ strip(parts[2]) = <<>>
            THEN fail(p, <<Marker, "Error: Specify input and output variables.">>,
                      FALSE)
            ELSE IF Len(var_parts) # 2
            THEN fail(p, <<Marker, "Error: Expected 2 variables (e.g., 'x, s') but found ",
                           ToString(Len(var_parts)), ".">>, FALSE)
            ELSE vars_of(p, symbols(var_parts[1]), symbols(var_parts[2]))
        from(parts) ==
            body(parts, _parse_expression_string(strip(parts[1]), o.parse),
                 StripAll(split(parts[2], ",", -1)))
    IN  from(split(s, ";", 1))

laplace_transform_expr(full_input_string, o) ==
    LET transform(calls) ==
            IF o.eng = "raise"
            THEN Outcome(Error(<<Marker, "Error during Laplace Transform: ", Exc>>),
                         calls, "engine_error")
            ELSE Outcome(_format_output(o.res, o.conds, o.latex), calls, "ok")
        request(r) ==
            IF r.raised THEN Outcome(Raised, r.calls, "param_raise")
            ELSE IF r.err # None THEN Outcome(Error(r.err), r.calls, "request_error")
            ELSE transform(r.calls \o <<Call("laplace_transform", r.p,
                                             r.v_in \o <<",">> \o r.v_out, 2)>>)
    IN  request(_parse_transform_request(full_input_string, o))

fourier_transform_expr(s, o) ==
    LET transform(calls) ==
            IF o.eng = "raise" THEN Outcome(Raised, calls, "engine_raise")
            ELSE Outcome(_format_output(o.res, o.conds, o.latex), calls, "ok")
        request(r) ==
            IF r.raised THEN Outcome(Raised, r.calls, "param_raise")
            ELSE IF r.err # None THEN Outcome(Error(r.err), r.calls, "request_error")
            ELSE transform(r.calls \o <<Call("fourier_transform", r.p,
                                             r.v_in \o <<",">> \o r.v_out, 2)>>)
    IN  request(_parse_transform_request(s, o))

mellin_transform_expr(s, o) ==
    LET transform(calls) ==
            IF o.eng = "raise" THEN Outcome(Raised, calls, "engine_raise")
            ELSE Outcome(_format_output(o.res, o.conds, o.latex), calls, "ok")
        request(r) ==
            IF r.raised THEN Outcome(Raised, r.calls, "param_raise")
            ELSE IF r.err # None THEN Outcome(Error(r.err), r.calls, "request_error")
            ELSE transform(r.calls \o <<Call("mellin_transform", r.p,
                                             r.v_in \o <<",">> \o r.v_out, 2)>>)
    IN  request(_parse_transform_request(s, o))

(***************************************************************************)
(* integrate: the request parser and the worker's computation              *)
(***************************************************************************)
\* (parsed_expr, var, limits, err); limits is None or <<var, a, b>>; raised
\* where symbols(varpart) raises outside the try
_parse_integration_request(full_input_string, o) ==
    LET fail(e, c) == [expr |-> None, var |-> None, limits |-> None, err |-> e,
                       raised |-> FALSE, calls |-> c]
        good(p, v, l) == [expr |-> p.expr, var |-> v, limits |-> l, err |-> None,
                          raised |-> FALSE, calls |-> p.calls]
        \* a_str, b_str = bounds.split(',', 1); var = symbols(varname)
        bounds(p, var, ab) ==
            IF /\ Len(ab) = 2
               /\ sympify(strip(ab[1]), o.parse2)
               /\ sympify(strip(ab[2]), o.parse2)
               /\ var.ok
            THEN good(p, var.name, <<var.name, strip(ab[1]), strip(ab[2])>>)
            ELSE fail(<<Marker, "Error parsing limits: ", Exc>>, p.calls)
        \* varname, bounds = varpart.split('=', 1)
        limits(p, vb) == bounds(p, symbols(strip(vb[1])), split(vb[2], ",", 1))
        variable(p, var) ==
            IF var.ok THEN good(p, var.name, None)
            ELSE [fail(None, p.calls) EXCEPT !.raised = TRUE]
        free(p, syms) ==
            IF Cardinality(syms) = 1
            THEN good(p, <<CHOOSE v \in syms : TRUE>>, None)
            ELSE fail(<<Marker, "Error: Please specify integration variable.">>,
                      p.calls)
        parsed(p, given, varpart) ==
            IF p.err # None THEN fail(p.err, p.calls)
            ELSE IF given
            THEN IF Contains(varpart, "=")
                 THEN limits(p, split(varpart, "=", 1))
                 ELSE variable(p, symbols(varpart))
            ELSE free(p, FreeSymbols(p.expr))
        body(expr_part, given, varpart) ==
            IF expr_part = <<>>
            THEN fail(<<Marker, "Error: Expression cannot be empty.">>, <<>>)
            ELSE parsed(_parse_expression_string(expr_part, o.parse), given, varpart)
        from(parts) ==
            body(strip(parts[1]), Len(parts) > 1 /\ strip(parts[2]) # <<>>,
                 strip(parts[2]))
    IN  from(split(full_input_string, ";", 1))

\* a wrapper that reports a failed computation with no message: the fault
\* the shape of the triples must exclude
_worker_wrapper_silent(o) ==
    IF o.eng = "raise" THEN Triple(None, None, None)
    ELSE _format_output(o.res, <<>>, o.latex)

\* what the worker process puts on the queue when its computation ends:
\* _manualintegrate_worker returns an expression, which _worker_wrapper
\* formats, or raises, which _worker_wrapper reports
_worker_wrapper(o) ==
    IF o.eng = "raise" THEN Error(<<Exc, "\n", Traceback>>)
    ELSE _format_output(o.res, <<>>, o.latex)

\* Python's truth value of an error slot
Truthy(e) == e # None /\ e # <<>>

\* integrate_expr appending the constant whatever the limits: the fault the
\* rule of the suffix must exclude
integrate_result_always(run, limits) ==
    IF Truthy(run.error) THEN Error(run.error)
    ELSE Triple(run.display \o <<" ", "+", " ", "C">>,
                run.latex \o <<" ", "+", " ", "C">>, None)

\* integrate_expr after _run_with_timeout returned (display, latex, worker_err)
integrate_result(run, limits) ==
    IF Truthy(run.error) THEN Error(run.error)
    ELSE IF limits = None /\ run.display # None /\ run.latex # None
    THEN Triple(run.display \o <<" ", "+", " ", "C">>,
                run.latex \o <<" ", "+", " ", "C">>, None)
    ELSE Triple(run.display, run.latex, None)

(***************************************************************************)
(* /api/solve                                                              *)
(***************************************************************************)
\* the mode names api_solve compares with
M_expand == <<"e", "x", "p", "a", "n", "d">>
M_simplify == <<"s", "i", "m", "p", "l", "i", "f", "y">>
M_factor == <<"f", "a", "c", "t", "o", "r">>
M_substitute == <<"s", "u", "b", "s", "t", "i", "t", "u", "t", "e">>
M_integrate == <<"i", "n", "t", "e", "g", "r", "a", "t", "e">>
M_differentiate == <<"d", "i", "f", "f", "e", "r", "e", "n", "t", "i", "a", "t", "e">>
M_resimplify == <<"r", "e", "s", "i", "m", "p", "l", "i", "f", "y">>
M_laplace_t == <<"l", "a", "p", "l", "a", "c", "e", "_", "t">>
M_fourier_t == <<"f", "o", "u", "r", "i", "e", "r", "_", "t">>
M_mellin_t == <<"m", "e", "l", "l", "i", "n", "_", "t">>

KnownModes ==
    {M_expand, M_simplify, M_factor, M_substitute, M_integrate,
     M_differentiate, M_resimplify, M_laplace_t, M_fourier_t, M_mellin_t}

\* (data.get('mode') or '').lower().strip(); a missing mode is None
ModeOf(raw) == strip(lower(IF raw = None THEN <<>> ELSE raw))

\* current_user of an unauthenticated caller
Anonymous == 0

NoResponse ==
    [status |-> 0, ok |-> FALSE, result |-> None, latex |-> None, error |-> None]

\* what the client gets: the jsonify(...) of api_solve, or the server's 500
\* when an exception leaves the handler
Response(mode, res) ==
    IF res.kind = "none"
    THEN [status |-> 400, ok |-> FALSE, result |-> None, latex |-> None,
          error |-> <<"Unknown mode '">> \o mode \o <<"'">>]
    ELSE IF res.kind = "raised"
    THEN [status |-> 500, ok |-> FALSE, result |-> None, latex |-> None,
          error |-> None]
    ELSE IF Truthy(res.error)
    THEN [status |-> 400, ok |-> FALSE, result |-> None, latex |-> None,
          error |-> res.error]
    ELSE [status |-> 200, ok |-> TRUE, result |-> res.display,
          latex |-> res.latex, error |-> None]

\* the History row api_solve adds
HistoryRow(mode, expr, res, user) ==
    [mode |-> mode, expression |-> expr, result |-> res.display,
     latex |-> res.latex, user_id |-> user]

(***************************************************************************)
(* State                                                                   *)
(***************************************************************************)
VARIABLES
    phase,      \* "idle", "received", "harness" (in _run_with_timeout), "done"
    req,        \* the request being served: raw mode, expr, calling user
    out,        \* what the operation function did (an Outcome)
    resp,       \* the response of api_solve
    history,    \* the rows of the histories table, oldest first
    pc,         \* the parent's place in _run_with_timeout
    worker,     \* the worker process: "none", "running", "put", "exited", "killed"
    wres,       \* the triple the worker's computation ends with
    qbuf,       \* items put on the Queue, still in the worker's buffer
    qpipe,      \* items the feeder thread wrote to the pipe
    sigterm,    \* p.terminate() was called
    expired,    \* the timed join ran out with the worker alive
    ictx,       \* var and limits of the integration request
    run         \* the triple _run_with_timeout returned

vars == <<phase, req, out, resp, history, pc, worker, wres, qbuf, qpipe,
          sigterm, expired, ictx, run>>

harness == <<pc, worker, wres, qbuf, qpipe, sigterm, expired, ictx, run>>

NoRequest == [mode |-> None, expr |-> None, user |-> Anonymous]

NoContext == [var |-> None, limits |-> None]

Init ==
    /\ phase = "idle"
    /\ req = NoRequest
    /\ out = Outcome(NoResult, <<>>, "")
    /\ resp = NoResponse
    /\ history = <<>>
    /\ pc = "none"
    /\ worker = "none"
    /\ wres = NoResult
    /\ qbuf = <<>>
    /\ qpipe = <<>>
    /\ sigterm = FALSE
    /\ expired = FALSE
    /\ ictx = NoContext
    /\ run = NoResult

\* api_solve recording every answered request: the fault the rule of the
\* history must exclude
CompleteRecordsAll(r, o) ==
    /\ phase' = "done"
    /\ req' = r
    /\ out' = o
    /\ resp' = Response(ModeOf(r.mode), o.res)
    /\ history' = Append(history, HistoryRow(ModeOf(r.mode), r.expr, o.res, r.user))

\* api_solve from the operation function's return on: the response, and the
\* History row of a success by an authenticated caller
Complete(r, o) ==
    /\ phase' = "done"
    /\ req' = r
    /\ out' = o
    /\ resp' = Response(ModeOf(r.mode), o.res)
    /\ history' = IF Response(ModeOf(r.mode), o.res).status = 200
                     /\ r.user # Anonymous
                  THEN Append(history, HistoryRow(ModeOf(r.mode), r.expr, o.res, r.user))
                  ELSE history

\* a POST /api/solve arrives: request.get_json() gives mode and expr, the
\* session gives current_user
Receive(modes, texts, users) ==
    /\ phase = "idle"
    /\ Len(history) < MaxHistory
    /\ \E m \in modes, t \in texts, u \in users :
         req' = [mode |-> m, expr |-> t, user |-> u]
    /\ phase' = "received"
    /\ UNCHANGED <<out, resp, history>>
    /\ UNCHANGED harness

\* api_solve has the request received in hand and its if/elif chain selects
\* the given mode
Handle(mode) == phase = "received" /\ ModeOf(req.mode) = mode

\* an unknown mode answered as a success: the fault the mode check must
\* exclude
UnknownModeAccepted ==
    /\ phase = "received"
    /\ ModeOf(req.mode) \notin KnownModes
    /\ Complete(req, Outcome(Triple(<<>>, <<>>, None), <<>>, "unknown_mode"))
    /\ UNCHANGED harness

\* api_solve for a request whose mode is none of the ten
UnknownMode ==
    /\ phase = "received"
    /\ ModeOf(req.mode) \notin KnownModes
    /\ Complete(req, Outcome(NoResult, <<>>, "unknown_mode"))
    /\ UNCHANGED harness

(***************************************************************************)
(* integrate_expr and the timeout harness (_run_with_timeout)              *)
(***************************************************************************)
\* the default timeout_seconds of integrate_expr
timeout_seconds == 20

\* the two triples _run_with_timeout makes itself
TimedOut ==
    Error(<<Marker, "Error: Operation timed out after ",
            ToString(timeout_seconds), " seconds.">>)

NoWorkerResult == Error(<<Marker, "Error: Worker did not return a result.">>)

\* p.is_alive() of the worker process
Alive(w) == w \in {"running", "put"}

\* api_solve for an integrate request, up to p.start(): the request parser,
\* then q = Queue(), p = Process(...), p.start(); a request the parser
\* rejects is answered at once
IntegrateStart(oracles) ==
    LET Start(r, o) ==
            IF r.raised
            THEN Complete(req, Outcome(Raised, r.calls, "param_raise"))
                 /\ UNCHANGED harness
            ELSE IF r.err # None
            THEN Complete(req, Outcome(Error(r.err), r.calls, "request_error"))
                 /\ UNCHANGED harness
            ELSE /\ phase' = "harness"
                 /\ out' = Outcome(NoResult,
                                   r.calls \o <<Call("_manualintegrate_worker", r.expr, r.var,
                                                     IF r.limits = None THEN 0 ELSE 1)>>,
                                   "worker_started")
                 /\ pc' = "join"
                 /\ worker' = "running"
                 /\ wres' = _worker_wrapper(o)
                 /\ ictx' = [var |-> r.var, limits |-> r.limits]
                 /\ UNCHANGED <<req, resp, history, qbuf, qpipe, sigterm, expired, run>>
    IN  /\ phase = "received"
        /\ ModeOf(req.mode) = M_integrate
        /\ \E o \in oracles : Start(_parse_integration_request(req.expr, o), o)

\* the worker's computation ends and _worker_wrapper calls q.put(...)
WorkerPut ==
    /\ phase = "harness" /\ worker = "running"
    /\ worker' = "put"
    /\ qbuf' = Append(qbuf, wres)
    /\ UNCHANGED <<phase, req, out, resp, history, pc, wres, qpipe, sigterm,
                   expired, ictx, run>>

\* the Queue's feeder thread moves the item into the pipe
FeederFlush ==
    /\ phase = "harness" /\ worker = "put" /\ qbuf # <<>>
    /\ qpipe' = qpipe \o qbuf
    /\ qbuf' = <<>>
    /\ UNCHANGED <<phase, req, out, resp, history, pc, worker, wres, sigterm,
                   expired, ictx, run>>

\* the worker process exits; at exit it waits for the feeder thread
WorkerExit ==
    /\ phase = "harness" /\ worker = "put" /\ qbuf = <<>>
    /\ worker' = "exited"
    /\ UNCHANGED <<phase, req, out, resp, history, pc, wres, qbuf, qpipe,
                   sigterm, expired, ictx, run>>

\* the worker process dies before it put anything
WorkerCrash ==
    /\ phase = "harness" /\ worker = "running"
    /\ worker' = "exited"
    /\ UNCHANGED <<phase, req, out, resp, history, pc, wres, qbuf, qpipe,
                   sigterm, expired, ictx, run>>

\* SIGTERM ends the worker, whatever it was doing
WorkerKilled ==
    /\ phase = "harness" /\ sigterm /\ Alive(worker)
    /\ worker' = "killed"
    /\ qbuf' = <<>>
    /\ UNCHANGED <<phase, req, out, resp, history, pc, wres, qpipe, sigterm,
                   expired, ictx, run>>

\* p.join(timeout) returns because the worker is gone
JoinExited ==
    /\ phase = "harness" /\ pc = "join" /\ ~Alive(worker)
    /\ pc' = "is_alive"
    /\ UNCHANGED <<phase, req, out, resp, history, worker, wres, qbuf, qpipe,
                   sigterm, expired, ictx, run>>

\* p.join() with no timeout, which returns only when the worker is gone:
\* the fault the bounded wait must exclude
JoinUntimed ==
    /\ phase = "harness" /\ pc = "join" /\ FALSE
    /\ UNCHANGED vars

\* p.join(timeout) returns because the timeout ran out
JoinTimeout ==
    /\ phase = "harness" /\ pc = "join" /\ Alive(worker)
    /\ pc' = "is_alive"
    /\ expired' = TRUE
    /\ UNCHANGED <<phase, req, out, resp, history, worker, wres, qbuf, qpipe,
                   sigterm, ictx, run>>

\* if p.is_alive():
IsAlive ==
    /\ phase = "harness" /\ pc = "is_alive"
    /\ pc' = IF Alive(worker) THEN "terminate" ELSE "empty"
    /\ UNCHANGED <<phase, req, out, resp, history, worker, wres, qbuf, qpipe,
                   sigterm, expired, ictx, run>>

\* p.terminate()
Terminate ==
    /\ phase = "harness" /\ pc = "terminate"
    /\ sigterm' = TRUE
    /\ pc' = "join_killed"
    /\ UNCHANGED <<phase, req, out, resp, history, worker, wres, qbuf, qpipe,
                   expired, ictx, run>>

\* _run_with_timeout returns triple to integrate_expr, which returns its
\* own triple to api_solve, which answers
Return(triple) ==
    /\ run' = triple
    /\ pc' = "returned"
    /\ Complete(req, Outcome(integrate_result(triple, ictx.limits), out.calls,
                             "worker_joined"))
    /\ UNCHANGED <<worker, wres, qbuf, qpipe, sigterm, expired, ictx>>

\* the timed-out return without the p.join() after terminate: the fault the
\* cancellation must exclude
ReturnAfterTerminate ==
    /\ phase = "harness" /\ pc = "join_killed"
    /\ Return(TimedOut)

\* p.join() after terminate, and the timed-out return
JoinKilled ==
    /\ phase = "harness" /\ pc = "join_killed" /\ ~Alive(worker)
    /\ Return(TimedOut)

\* a parent that never reads the queue: the fault the return of the
\* worker's triple must exclude
QueueUnread ==
    /\ phase = "harness" /\ pc = "empty"
    /\ Return(NoWorkerResult)

\* if q.empty(): return ... "Worker did not return a result."
QueueEmpty ==
    /\ phase = "harness" /\ pc = "empty"
    /\ IF qpipe = <<>>
       THEN Return(NoWorkerResult)
       ELSE /\ pc' = "get"
            /\ UNCHANGED <<phase, req, out, resp, history, worker, wres, qbuf,
                           qpipe, sigterm, expired, ictx, run>>

\* display, latex, err = q.get_nowait(); return display, latex, err
GetNowait ==
    /\ phase = "harness" /\ pc = "get" /\ qpipe # <<>>
    /\ Return(Head(qpipe))

\* the steps of the parent inside _run_with_timeout
Parent ==
    \/ JoinExited \/ JoinTimeout \/ IsAlive \/ Terminate \/ JoinKilled
    \/ QueueEmpty \/ GetNowait

\* the worker process, its feeder thread and the signal
Worker == WorkerPut \/ FeederFlush \/ WorkerExit \/ WorkerCrash \/ WorkerKilled

\* the response is sent and the request's objects are dropped
EndRequest ==
    /\ phase = "done"
    /\ phase' = "idle"
    /\ req' = NoRequest
    /\ out' = Outcome(NoResult, <<>>, "")
    /\ resp' = NoResponse
    /\ pc' = "none"
    /\ worker' = "none"
    /\ wres' = NoResult
    /\ qbuf' = <<>>
    /\ qpipe' = <<>>
    /\ sigterm' = FALSE
    /\ expired' = FALSE
    /\ ictx' = NoContext
    /\ run' = NoResult
    /\ UNCHANGED history

\* DELETE /api/history by an authenticated user
ClearHistory(users) ==
    /\ phase = "idle"
    /\ \E u \in users \ {Anonymous} :
         /\ \E i \in 1..Len(history) : history[i].user_id = u
         /\ history' = SelectSeq(history, LAMBDA h : h.user_id # u)
    /\ UNCHANGED <<phase, req, out, resp>>
    /\ UNCHANGED harness

(***************************************************************************)
(* The requests of the model                                               *)
(***************************************************************************)
\* expression parts: empty, a variable, two variables (one squared), a
\* number, equations with both sides, without a right side, without a
\* left side, with two '='
ExprParts ==
    { <<>>,
      <<"x">>,
      <<" ", "x", "sup2", "+", "y", " ">>,
      <<"2">>,
      <<"x", "sup2", "=", "y">>,
      <<"x", "=">>,
      <<"=", "x">>,
      <<"2", "x", "=", "y", "=", "2">> }

\* expression parts without an equation
PlainParts == {e \in ExprParts : ~Contains(e, "=")}

\* the parameter parts of at most n of the given words, joined by commas
ParamParts(words, n) ==
    {join(ws, <<",">>) : ws \in UNION {[1..k -> words] : k \in 0..n}}

\* "expr" and "expr;params"
RequestTexts(exprs, words) ==
    exprs \cup {e \o <<";">> \o ps : e \in exprs, ps \in ParamParts(words, MaxParams)}

\* the inputs of the operations on one expression
ExprTexts ==
    {e \o suffix : e \in ExprParts,
                   suffix \in {<<>>, <<" ", "+", " ", "C">>, <<"+", "c", " ">>}}

\* variable[, order] and dependent, independent
DifferentiateWords == {<<>>, <<" ", "x">>, <<"2">>, <<"0">>, <<"-", "1">>}

\* variable, and variable=a,b
IntegrateWords == {<<>>, <<" ", "y", " ">>, <<"x", "=", "0">>, <<"2">>}

\* var=value assignments
SubstituteWords == {<<>>, <<"x">>, <<"x", "=", "0">>, <<" ", "y", " ", "=", "2">>}

\* inputVar, transformVar
TransformWords == {<<>>, <<"x">>, <<" ", "y", " ">>}

\* the requests of Spec: each operation by its name, with its inputs
TextsFor(mode) ==
    CASE mode = M_differentiate -> RequestTexts(ExprParts, DifferentiateWords)
      [] mode = M_integrate     -> RequestTexts(PlainParts, IntegrateWords)
      [] mode = M_substitute    -> RequestTexts(PlainParts, SubstituteWords)
      [] mode \in {M_laplace_t, M_fourier_t, M_mellin_t}
                                -> RequestTexts(PlainParts, TransformWords)
      [] OTHER                  -> ExprTexts

ReceiveRequest ==
    \E m \in KnownModes : Receive({m}, TextsFor(m), {Anonymous})

Outcomes == {"ok", "raise"}

Expand ==
    /\ Handle(M_expand)
    /\ \E o \in Oracles(BOOLEAN, {TRUE}, Outcomes, {TRUE}, {FALSE}, BOOLEAN,
                       EngineResults, OneResult, {<<>>}) :
         Complete(req, expand_expr(req.expr, o))
    /\ UNCHANGED harness

Simplify ==
    /\ Handle(M_simplify)
    /\ \E o \in Oracles(BOOLEAN, {TRUE}, Outcomes, BOOLEAN, {FALSE}, BOOLEAN,
                       EngineResults, OneResult, {<<>>}) :
         Complete(req, simplify_expr(req.expr, o))
    /\ UNCHANGED harness

Factor ==
    /\ Handle(M_factor)
    /\ \E o \in Oracles(BOOLEAN, {TRUE}, Outcomes, {TRUE}, {FALSE}, BOOLEAN,
                       EngineResults, OneResult, {<<>>}) :
         Complete(req, factor_expr(req.expr, o))
    /\ UNCHANGED harness

Resimplify ==
    /\ Handle(M_resimplify)
    /\ \E o \in Oracles(BOOLEAN, {TRUE}, Outcomes, BOOLEAN, {FALSE}, BOOLEAN,
                       EngineResults, OneResult, {<<>>}) :
         Complete(req, resimplify_expr(req.expr, o))
    /\ UNCHANGED harness

Substitute ==
    /\ Handle(M_substitute)
    /\ \E o \in Oracles(BOOLEAN, BOOLEAN, Outcomes, {TRUE}, BOOLEAN, BOOLEAN,
                       OneResult, OneResult, {<<>>}) :
         Complete(req, substitute_expr(req.expr, o))
    /\ UNCHANGED harness

Differentiate ==
    /\ Handle(M_differentiate)
    /\ \E o \in Oracles(BOOLEAN, BOOLEAN, Outcomes, {TRUE}, BOOLEAN, BOOLEAN,
                       OneResult, OneResult, {<<>>}) :
         Complete(req, differentiate_expr(req.expr, o))
    /\ UNCHANGED harness

Laplace ==
    /\ Handle(M_laplace_t)
    /\ \E o \in Oracles(BOOLEAN, {TRUE}, Outcomes, {TRUE}, {FALSE}, BOOLEAN,
                       OneResult, OneResult, EngineConditions) :
         Complete(req, laplace_transform_expr(req.expr, o))
    /\ UNCHANGED harness

Fourier ==
    /\ Handle(M_fourier_t)
    /\ \E o \in Oracles(BOOLEAN, {TRUE}, Outcomes, {TRUE}, {FALSE}, BOOLEAN,
                       OneResult, OneResult, EngineConditions) :
         Complete(req, fourier_transform_expr(req.expr, o))
    /\ UNCHANGED harness

Mellin ==
    /\ Handle(M_mellin_t)
    /\ \E o \in Oracles(BOOLEAN, {TRUE}, Outcomes, {TRUE}, {FALSE}, BOOLEAN,
                       OneResult, OneResult, EngineConditions) :
         Complete(req, mellin_transform_expr(req.expr, o))
    /\ UNCHANGED harness

Integrate ==
    IntegrateStart(Oracles(BOOLEAN, BOOLEAN, Outcomes, {TRUE}, {FALSE}, BOOLEAN,
                           EngineResults, OneResult, {<<>>}))

\* the handlers of api_solve, one per mode
Operation ==
    \/ Expand \/ Simplify \/ Factor \/ Resimplify \/ Substitute
    \/ Differentiate \/ Laplace \/ Fourier \/ Mellin \/ Integrate

Next == ReceiveRequest \/ Operation \/ Parent \/ Worker \/ EndRequest

\* every operation, requested by its name by an anonymous caller
Spec == Init /\ [][Next]_vars

(***************************************************************************)
(* /api/solve as its callers see it: raw mode strings, callers who are      *)
(* signed in or not, and the history                                        *)
(***************************************************************************)
\* the mode field of the request body: missing, empty, a known name as the
\* client may write it, and names api_solve does not know
RawModes ==
    KnownModes
    \cup { None, <<>>, <<" ", "E", "x", "p", "a", "n", "d", " ">>,
           <<"l", "a", "p", "l", "a", "c", "e">>, <<"s", "o", "l", "v", "e">> }

\* the anonymous caller and two signed-in users
Callers == {Anonymous, 1, 2}

\* an expression that succeeds and one that fails
ApiTexts == { <<"x">>, <<>> }

ApiRequest == Receive(RawModes, ApiTexts, Callers)

ApiClearHistory == ClearHistory(Callers)

NextApi ==
    \/ ApiRequest \/ UnknownMode \/ Operation \/ Parent \/ Worker
    \/ EndRequest \/ ApiClearHistory

SpecApi == Init /\ [][NextApi]_vars

(***************************************************************************)
(* integrate under the scheduling the operating system guarantees: the      *)
(* parent's steps are taken (a timed join returns, a started call returns)  *)
(* and SIGTERM ends the process it is sent to                               *)
(***************************************************************************)
HarnessTexts ==
    { <<"x">>, <<"x", ";", "y">>, <<"2", ";", "x", "=", "0", ",", "2">>, <<"2">> }

IntegrateRequest == Receive({M_integrate}, HarnessTexts, {Anonymous})

NextHarness == IntegrateRequest \/ Integrate \/ Parent \/ Worker \/ EndRequest

SpecFair ==
    Init /\ [][NextHarness]_vars /\ WF_vars(Parent) /\ WF_vars(WorkerKilled)

(***************************************************************************)
(* What the properties speak about                                          *)
(***************************************************************************)
\* the request in hand asks for the given operation
Asked(mode) == ModeOf(req.mode) = mode

\* the operation function has returned or raised, and api_solve answered
Answered == phase = "done"

\* the operation function returned a triple with an error message
Failed == out.res.kind = "triple" /\ out.res.error # None

\* the operation function returned a triple without an error
Succeeded == out.res.kind = "triple" /\ out.res.error = None

\* the request text before and after its first ';'
ExprPart == strip(split(req.expr, ";", 1)[1])

ParamPart ==
    IF Len(split(req.expr, ";", 1)) > 1 THEN strip(split(req.expr, ";", 1)[2])
    ELSE <<>>

\* the number of comma-separated parameters of the request
ParamCount == IF ParamPart = <<>> THEN 0 ELSE Len(split(ParamPart, ",", -1))

\* the engine calls of the given function the operation made
CallsOf(fn) == {i \in 1..Len(out.calls) : out.calls[i].fn = fn}

\* text reads as a Python integer: optional sign, then digits
IntegerText(text) ==
    LET t    == strip(text)
        body == IF t # <<>> /\ Head(t) \in {"+", "-"} THEN Tail(t) ELSE t
    IN  body # <<>> /\ \A i \in 1..Len(body) : body[i] \in Digits

\* an integer text whose value is zero or less
NotPositive(text) ==
    LET t == strip(text)
    IN  Head(t) = "-" \/ \A i \in 1..Len(t) : t[i] \in {"+", "0"}

\* the value of an integer text that has no minus sign
PositiveValue(text) ==
    LET t == strip(text)
    IN  DecimalVal(IF Head(t) = "+" THEN Tail(t) ELSE t)

\* the letters of the expression part: its variables
ExprVariables == {ExprPart[i] : i \in 1..Len(ExprPart)} \cap Letters

HasEquals(text) == \E i \in 1..Len(text) : text[i] = "="

HasComma(text) == \E i \in 1..Len(text) : text[i] = ","

\* the operation answered with the parse failure of its expression
ParseFailed ==
    Answered /\ Failed
    /\ out.res.error = <<Marker, "Error parsing expression: ", Exc>>

\* integrate_expr started a worker process for the request
WorkerStarted == CallsOf("_manualintegrate_worker") # {}

(***************************************************************************)
(* Properties                                                               *)
(***************************************************************************)
\* C1: every operation function answers every input with a triple; a failure
\* raised by the engine while the parameter symbols are built, the engine
\* function is called or the result is typeset is returned as an error
\* triple, and no exception leaves the operation function.
C1_NoExceptionLeavesAnOperation ==
    Answered => out.res.kind = "triple"

\* C2: every triple an operation function returns has a display and no
\* error, or an error and no display: never both, never neither.
C2_DisplayOrError ==
    (Answered /\ out.res.kind = "triple") =>
        \/ out.res.display # None /\ out.res.error = None
        \/ out.res.display = None /\ out.res.error # None

\* an integration whose worker raised, answered with the worker's message
C2_Witness ==
    /\ Answered /\ Asked(M_integrate) /\ out.branch = "worker_joined"
    /\ wres.error # None /\ out.res.error = wres.error
    /\ out.res.display = None

\* C3: every call of _run_with_timeout returns: with the worker's result,
\* with "Worker did not return a result" or with the timeout error; the
\* caller never waits forever, whether the worker finishes, raises, never
\* finishes or dies before it enqueued anything.
C3_CallerGetsAnAnswer ==
    /\ [](pc = "returned" => run \in {wres, NoWorkerResult, TimedOut})
    /\ (phase = "harness" ~> pc = "returned")

\* the worker died with nothing enqueued and the caller was answered
C3_Witness ==
    pc = "returned" /\ worker = "exited" /\ qpipe = <<>> /\ run = NoWorkerResult

\* C4, as the code has it: if the worker is alive when the parent calls
\* p.is_alive() after the timed join, then when _run_with_timeout returns
\* the worker was sent SIGTERM and runs no more, the triple returned is the
\* timeout error, nothing the worker computed or enqueued reaches the
\* caller, and the worker was started once.
C4_AliveAtCheckTimesOut ==
    (pc = "returned" /\ sigterm) =>
        /\ expired
        /\ ~Alive(worker)
        /\ run = TimedOut
        /\ out.res = TimedOut
        /\ resp.ok = FALSE /\ resp.result = None /\ resp.error = TimedOut.error
        /\ Cardinality(CallsOf("_manualintegrate_worker")) = 1

\* the worker had enqueued a result, was killed, and the result was dropped
C4_Witness ==
    /\ pc = "returned" /\ sigterm /\ worker = "killed"
    /\ qpipe # <<>> /\ wres.error = None

\* C4, as stated: if the worker is alive when the timeout expires, then when
\* _run_with_timeout returns the worker runs no more and the triple returned
\* is the timeout error.
C4_AliveAtExpiryTimesOut ==
    (pc = "returned" /\ expired) => (~Alive(worker) /\ run = TimedOut)

\* C5: a request whose mode, lower-cased and trimmed, is none of the ten
\* names is answered with ok = false and an error text, calls no operation
\* function, starts no worker, writes no history and raises nothing.
C5_UnknownModeIsRefused ==
    /\ []((Answered /\ ModeOf(req.mode) \notin KnownModes) =>
             /\ resp.status = 400 /\ resp.ok = FALSE
             /\ resp.error \notin {None, <<>>}
             /\ out.res.kind = "none" /\ out.calls = <<>>
             /\ worker = "none" /\ pc = "none")
    /\ [][(phase = "received" /\ ModeOf(req.mode) \notin KnownModes) =>
             (Answered' /\ history' = history)]_vars

\* a signed-in user asked for "laplace", which is none of the ten names
C5_Witness ==
    /\ Answered /\ ModeOf(req.mode) = <<"l", "a", "p", "l", "a", "c", "e">>
    /\ req.user = 1 /\ resp.status = 400
    /\ history = <<>>

\* C6: every error message an operation function returns opens with the
\* error marker, on every error path: parse failure, parameter failure,
\* engine failure, timeout, and a failure raised inside the integration
\* worker.
C6_ErrorsOpenWithTheMarker ==
    (Answered /\ Failed) => Head(out.res.error) = Marker

\* C7, as the code has it: for a request whose expression part is not empty
\* and whose equation sides parse, differentiate takes exactly one of:
\* explicit mode iff the expression part has no '='; total mode iff '=' and
\* exactly one parameter; standard implicit mode iff '=' and two or more
\* parameters (the first two are used); an error iff '=' and no parameter.
C7_ModeFromShape ==
    (Answered /\ Asked(M_differentiate)
     /\ out.branch \notin {"empty", "parse_error"}) =>
        /\ out.branch \in {"explicit", "total", "implicit", "no_params"}
        /\ out.branch = "explicit" <=> ~HasEquals(ExprPart)
        /\ out.branch = "total" <=> (HasEquals(ExprPart) /\ ParamCount = 1)
        /\ out.branch = "implicit" <=> (HasEquals(ExprPart) /\ ParamCount >= 2)
        /\ out.branch = "no_params" <=> (HasEquals(ExprPart) /\ ParamCount = 0)
        /\ out.branch = "no_params" => Failed

\* an equation with three parameters was differentiated implicitly
C7_Witness ==
    /\ Answered /\ Asked(M_differentiate)
    /\ out.branch = "implicit" /\ ParamCount = 3
    /\ CallsOf("diff") # {}

\* C7, as stated: the same, with standard implicit mode iff '=' and exactly
\* two parameters.
C7_ImplicitIffTwoParams ==
    (Answered /\ Asked(M_differentiate)
     /\ out.branch \notin {"empty", "parse_error"}) =>
        /\ out.branch \in {"explicit", "total", "implicit", "no_params"}
        /\ out.branch = "explicit" <=> ~HasEquals(ExprPart)
        /\ out.branch = "total" <=> (HasEquals(ExprPart) /\ ParamCount = 1)
        /\ out.branch = "implicit" <=> (HasEquals(ExprPart) /\ ParamCount = 2)
        /\ out.branch = "no_params" <=> (HasEquals(ExprPart) /\ ParamCount = 0)
        /\ out.branch = "no_params" => Failed

\* C8: in explicit differentiation the variable is x and the order 1 when
\* the parameter part is absent; an order that is supplied and is no integer,
\* or is zero or less, is answered with an error and the engine's
\* differentiate is not called; the engine's differentiate is only ever
\* called with an order of 1 or more.
C8_OrderIsAPositiveInteger ==
    (Answered /\ Asked(M_differentiate)) =>
        /\ \A i \in CallsOf("diff") : out.calls[i].n >= 1
        /\ (out.branch = "explicit" /\ ParamPart = <<>>) =>
               \A i \in CallsOf("diff") :
                   out.calls[i].var = <<"x">> /\ out.calls[i].n = 1
        /\ (out.branch = "explicit" /\ HasComma(ParamPart)) =>
               LET order == split(ParamPart, ",", 1)[2]
               IN  /\ (~IntegerText(order) \/ NotPositive(order)) =>
                          (Failed /\ CallsOf("diff") = {})
                   /\ \A i \in CallsOf("diff") :
                          /\ IntegerText(order)
                          /\ out.calls[i].n = PositiveValue(order)

\* an order of zero or less was supplied and refused
C8_Witness ==
    /\ Answered /\ Asked(M_differentiate) /\ out.branch = "explicit"
    /\ HasComma(ParamPart)
    /\ IntegerText(split(ParamPart, ",", 1)[2])
    /\ NotPositive(split(ParamPart, ",", 1)[2])
    /\ Failed /\ out.calls # <<>> /\ CallsOf("diff") = {}

\* C9: integrate with no parameter part uses the one free variable of the
\* parsed expression; with none or several it answers with an error and
\* starts no worker process. A variable named by the parameter part is the
\* one used, whatever the free variables are.
C9_IntegrationVariable ==
    (Asked(M_integrate) /\ phase \in {"harness", "done"}
     /\ ExprPart # <<>> /\ ~ParseFailed) =>
        /\ (ParamPart = <<>> /\ Cardinality(ExprVariables) = 1) =>
               /\ WorkerStarted
               /\ \A i \in CallsOf("_manualintegrate_worker") :
                      out.calls[i].var = <<CHOOSE v \in ExprVariables : TRUE>>
               /\ ictx.var = <<CHOOSE v \in ExprVariables : TRUE>>
        /\ (ParamPart = <<>> /\ Cardinality(ExprVariables) # 1) =>
               /\ ~WorkerStarted /\ Answered /\ Failed
               /\ worker = "none" /\ pc = "none"
        /\ (ParamPart # <<>> /\ ~HasEquals(ParamPart) /\ ~HasComma(ParamPart)) =>
               /\ WorkerStarted
               /\ \A i \in CallsOf("_manualintegrate_worker") :
                      out.calls[i].var = ParamPart
               /\ ictx.var = ParamPart

\* an expression of two variables was integrated by the variable named,
\* which is the second of them
C9_Witness ==
    /\ Asked(M_integrate) /\ phase = "harness"
    /\ Cardinality(ExprVariables) = 2
    /\ ParamPart = <<"y">> /\ ictx.var = <<"y">>
    /\ WorkerStarted

\* C10: a successful integration has " + C" appended to the display and to
\* the typeset string iff the request gave no bounds; with bounds (var=a,b)
\* neither string gets it; an error carries neither string.
C10_ConstantOfIntegration ==
    (Answered /\ Asked(M_integrate)) =>
        /\ Failed => (out.res.display = None /\ out.res.latex = None)
        /\ out.branch = "worker_joined" =>
               /\ (ictx.limits # None) <=> HasEquals(ParamPart)
               /\ (Succeeded /\ ~HasEquals(ParamPart)) =>
                      /\ out.res.display = run.display \o <<" ", "+", " ", "C">>
                      /\ out.res.latex = run.latex \o <<" ", "+", " ", "C">>
               /\ (Succeeded /\ HasEquals(ParamPart)) =>
                      /\ out.res.display = run.display
                      /\ out.res.latex = run.latex
               /\ Succeeded => (run = wres /\ run.display # None /\ run.latex # None)

\* a definite integral succeeded, with a result that itself ends in " + C"
C10_Witness ==
    /\ Answered /\ Asked(M_integrate) /\ out.branch = "worker_joined"
    /\ Succeeded /\ HasEquals(ParamPart) /\ ictx.limits # None
    /\ out.res.display = <<"A", " ", "+", " ", "C">>

\* the three transform modes
TransformModes == {M_laplace_t, M_fourier_t, M_mellin_t}

\* the engine transform calls of the request
TransformCalls ==
    CallsOf("laplace_transform") \cup CallsOf("fourier_transform")
        \cup CallsOf("mellin_transform")

\* the parameter part gives exactly two variable names, neither of them empty
TwoVariables ==
    /\ ParamPart # <<>>
    /\ Len(split(ParamPart, ",", -1)) = 2
    /\ \A i \in 1..2 : strip(split(ParamPart, ",", -1)[i]) # <<>>

\* C11: laplace, fourier and mellin call the engine transform only when the
\* parameter part gives exactly two variables; a missing parameter part, or
\* one with fewer or more than two variables, an empty name on either side
\* of the comma included, is answered with an error triple and no transform
\* call.
C11_TwoVariablesOrError ==
    (Answered /\ ModeOf(req.mode) \in TransformModes /\ ~ParseFailed
     /\ ExprPart # <<>>) =>
        /\ TransformCalls # {} => TwoVariables
        /\ ~TwoVariables => (Failed /\ TransformCalls = {})

\* f"\\text{{{str(parsed_expr)}}}": the plain string form in a typeset text
\* escape, as the preview builds it
TextEscape(plain) == <<"\\text{">> \o plain \o <<"}">>

\* the typeset string is the engine's typesetting of some result
Typeset(latex) == latex # None /\ latex # <<>> /\ Head(latex) = "<latex>"

\* C12: when the engine's typesetting fails on a successful result the
\* operation still succeeds: the typeset string is the plain string form of
\* the result in a text escape, it is not empty, and the failure is never
\* answered as an error, on every path that makes a typeset string (the
\* result formatter, the numeric branch of substitute, total
\* differentiation).
C12_TypesettingFallsBack ==
    Answered =>
        /\ out.branch # "latex_error"
        /\ Succeeded =>
               /\ out.res.latex # <<>>
               /\ \/ Typeset(out.res.latex)
                  \/ \E r \in EngineResults : out.res.latex = TextEscape(r)

\* the fragments of the request text an operation hands to its parser: the
\* whole text, the text without a trailing "+ C", the expression part, and
\* the sides of an equation
ExprFragments ==
    {strip(req.expr), StripPlusC(strip(req.expr)), ExprPart}
        \cup {strip(split(ExprPart, "=", 1)[k]) :
                  k \in 1..Len(split(ExprPart, "=", 1))}

\* the calls in which the engine's parser is given expression text
ParserCalls ==
    {i \in 1..Len(out.calls) :
        \/ out.calls[i].fn = "parse_expr"
        \/ out.calls[i].fn = "sympify" /\ Asked(M_substitute)}

\* C13: in every operation the expression fragment goes through the
\* normalizer (superscripts, caret, abs, implicit multiplication) before the
\* engine's parser gets it: the parser never receives the raw text, and the
\* request is split, normalized, parsed, dispatched and formatted in that
\* order.
C13_ParserGetsNormalizedText ==
    Answered =>
        \A i \in ParserCalls :
            /\ \E f \in ExprFragments : out.calls[i].arg = Normalize(f)
            /\ \A j \in 1..(i - 1) :
                   out.calls[j].fn \in {"parse_expr", "sympify"}

(***************************************************************************)
(* The text pipeline on its own: a text is normalized as                   *)
(* _parse_expression_string normalizes it, shown as normal_to_unicode_expr *)
(* shows it, and normalized again                                          *)
(***************************************************************************)
\* longest text over TextAlphabet
MaxText == 4

\* letters, a digit, superscripts, parentheses and operators
TextAlphabet == {"x", "y", "2", "sup2", "sup-", "(", ")", "+", "*"}

\* a text with superscripts, each run of them on a base it can be folded to
SupportedText(s) ==
    /\ \E i \in 1..Len(s) : s[i] \in Superscripts
    /\ \A i \in 1..Len(s) :
           s[i] \in Superscripts =>
               i > 1 /\ s[i - 1] \in Letters \cup Digits \cup {")"} \cup Superscripts

SuperscriptTexts ==
    {s \in UNION {[1..k -> TextAlphabet] : k \in 1..MaxText} : SupportedText(s)}

\* the name a function has after normalization: abs( is written Abs(
Canonical(name) == IF name = <<"a","b","s">> THEN <<"A","b","s">> ELSE name

Coefficients == { <<"2">>, <<"1", "2">>, <<"2", ".", "5">> }

\* a number, optional whitespace, a function name and its argument
CoefficientText(number, space, name) ==
    number \o space \o name \o <<"(", "x", ")">>

CoefficientTexts ==
    {CoefficientText(n, sp, f) :
        n \in Coefficients, sp \in {<<>>, <<" ">>}, f \in func_pattern}

\* what may stand before a unary minus: nothing, or text ending in one of
\* '=', whitespace, '(', '+', '-', '*', '/', ','
MinusPositions ==
    { <<>>, <<"y", "=">>, <<"y", " ">>, <<"(">>, <<"y", "+">>, <<"y", "-">>,
      <<"y", "*">>, <<"y", "/">>, <<"(", "y", ",">> }

MinusAbs == <<"-", "a", "b", "s", "(", "x", ")">>

UnaryMinusTexts == {pre \o MinusAbs : pre \in MinusPositions}

TextInputs == SuperscriptTexts \cup CoefficientTexts \cup UnaryMinusTexts

InitText ==
    /\ phase = "text"
    /\ req \in {[mode |-> None, expr |-> t, user |-> Anonymous] : t \in TextInputs}
    /\ out = Outcome(NoResult, <<>>, "")
    /\ resp = NoResponse
    /\ history = <<>>
    /\ pc = "none"
    /\ worker = "none"
    /\ wres = NoResult
    /\ qbuf = <<>>
    /\ qpipe = <<>>
    /\ sigterm = FALSE
    /\ expired = FALSE
    /\ ictx = NoContext
    /\ run = NoResult

\* _parse_expression_string on the text, up to its call of parse_expr
NormalizeText ==
    /\ phase = "text"
    /\ phase' = "normalized"
    /\ out' = Outcome(NoResult, _parse_expression_string(req.expr, TRUE).calls,
                      "normalized")
    /\ UNCHANGED <<req, resp, history>>
    /\ UNCHANGED harness

\* normal_to_unicode_expr on the normalized text
DisplayText ==
    /\ phase = "normalized"
    /\ out.calls # <<>>
    /\ phase' = "displayed"
    /\ out' = Outcome(Triple(normal_to_unicode_expr(out.calls[1].arg), None, None),
                      out.calls, "displayed")
    /\ UNCHANGED <<req, resp, history>>
    /\ UNCHANGED harness

\* _parse_expression_string on the text shown
RenormalizeText ==
    /\ phase = "displayed"
    /\ phase' = "renormalized"
    /\ out' = Outcome(out.res,
                      out.calls \o _parse_expression_string(out.res.display, TRUE).calls,
                      "renormalized")
    /\ UNCHANGED <<req, resp, history>>
    /\ UNCHANGED harness

NextText == NormalizeText \/ DisplayText \/ RenormalizeText

SpecText == InitText /\ [][NextText]_vars

\* the text handed to parse_expr by the first normalization
Normalized == out.calls[1].arg

\* C14: where a number is followed at once, or after whitespace, by a
\* recognized function name and '(', normalization gives the number, one
\* '*', and the function name still joined to its '(': no '*' inside the
\* name or between the name and '('.
C14_CoefficientTimesFunction ==
    \A n \in Coefficients, sp \in {<<>>, <<" ">>}, f \in func_pattern :
        (phase = "normalized" /\ req.expr = CoefficientText(n, sp, f)) =>
            Normalized = n \o <<"*">> \o Canonical(f) \o <<"(", "x", ")">>

\* text ends with the given ending
EndsWith(text, ending) ==
    Len(text) >= Len(ending)
    /\ SubSeq(text, Len(text) - Len(ending) + 1, Len(text)) = ending

\* C15: normalization rewrites a unary minus right before abs( to -1*Abs(
\* in every listed position: at the start of the string, and after '=',
\* whitespace, '(', '+', '-', '*', '/' or ','.
C15_UnaryMinusBeforeAbs ==
    \A pre \in MinusPositions :
        (phase = "normalized" /\ req.expr = pre \o MinusAbs) =>
            EndsWith(Normalized, <<"-", "1", "*", "A", "b", "s", "(", "x", ")">>)

\* C16: for every supported text with unicode superscripts, normalizing the
\* text, showing the normalized text with normal_to_unicode_expr and
\* normalizing what is shown gives the normalized text again.
C16_NormalizeShowNormalize ==
    (phase = "renormalized" /\ SupportedText(req.expr)) =>
        /\ Len(out.calls) = 2
        /\ out.calls[2].arg = Normalized

(***************************************************************************)
(* The typeset preview (get_latex_from_expr) beside differentiate: the two *)
(* places that split an equation into its sides                            *)
(***************************************************************************)
\* (latex, error): a Triple without a display
get_latex_from_expr(expression_string, o) ==
    LET shown(l) == Triple(None, l, None)
        equation(lhs, rhs) ==
            IF lhs.err # None
            THEN Outcome(Error(lhs.err), lhs.calls \o rhs.calls, "preview_error")
            ELSE IF rhs.err # None
            THEN Outcome(Error(rhs.err), lhs.calls \o rhs.calls, "preview_error")
            ELSE IF o.latex
            THEN Outcome(shown(sympy_latex(lhs.expr) \o <<" ", "=", " ">>
                               \o sympy_latex(rhs.expr)),
                         lhs.calls \o rhs.calls, "preview_equation")
            ELSE Outcome(shown(TextEscape(lhs.expr \o <<" ", "=", " ">> \o rhs.expr)),
                         lhs.calls \o rhs.calls, "preview_equation")
        \* rhs_str = eq_parts[1] if len(eq_parts) > 1 else '0'
        sides(eq_parts) ==
            equation(_parse_expression_string(eq_parts[1], o.parse),
                     _parse_expression_string(
                         IF Len(eq_parts) > 1 THEN eq_parts[2] ELSE <<"0">>,
                         o.parse2))
        plain(p) ==
            IF p.err # None THEN Outcome(Error(p.err), p.calls, "preview_error")
            ELSE IF o.latex
            THEN Outcome(shown(sympy_latex(p.expr)), p.calls, "preview")
            ELSE Outcome(shown(TextEscape(p.expr)), p.calls, "preview")
        body(expr_for_preview) ==
            IF expr_for_preview = <<>>
            THEN Outcome(shown(<<>>), <<>>, "preview_empty")
            ELSE IF Contains(expr_for_preview, "=")
            THEN sides(split(expr_for_preview, "=", 1))
            ELSE plain(_parse_expression_string(expr_for_preview, o.parse))
    IN  IF strip(expression_string) = <<>>
        THEN Outcome(shown(<<>>), <<>>, "preview_empty")
        ELSE body(strip(split(expression_string, ";", 1)[1]))

\* the texts previewed: every expression part, alone and with a parameter
PreviewTexts == ExprParts \cup {e \o <<";", "x">> : e \in ExprParts}

\* the page asks for the preview of the text typed so far
PreviewCall ==
    /\ phase = "idle"
    /\ \E t \in PreviewTexts :
         req' = [mode |-> None, expr |-> t, user |-> Anonymous]
    /\ phase' = "preview"
    /\ UNCHANGED <<out, resp, history>>
    /\ UNCHANGED harness

\* get_latex_from_expr answers
Preview ==
    /\ phase = "preview"
    /\ \E o \in Oracles(BOOLEAN, BOOLEAN, {"ok"}, {TRUE}, {FALSE}, BOOLEAN,
                       OneResult, OneResult, {<<>>}) :
         out' = get_latex_from_expr(req.expr, o)
    /\ phase' = "done"
    /\ UNCHANGED <<req, resp, history>>
    /\ UNCHANGED harness

DifferentiateRequest ==
    Receive({M_differentiate}, TextsFor(M_differentiate), {Anonymous})

NextPreview ==
    PreviewCall \/ Preview \/ DifferentiateRequest \/ Differentiate \/ EndRequest

SpecPreview == Init /\ [][NextPreview]_vars

\* the expression part is an equation with nothing, or only blanks, after
\* its first '=' and something before it
RhsBlank ==
    /\ HasEquals(ExprPart)
    /\ strip(split(ExprPart, "=", 1)[1]) # <<>>
    /\ strip(split(ExprPart, "=", 1)[2]) = <<>>

\* the answer is the refusal of an empty expression
RefusedAsEmpty ==
    Failed /\ out.res.error = <<Marker, "Error: Expression cannot be empty.">>

\* C17: where an expression part with '=' is split into its sides, in
\* differentiate and in the typeset preview, the split is at the first '='
\* and a right side that is absent or blank is taken to be the literal 0:
\* "x^2+y^2=" is processed as x^2+y^2 = 0 and not rejected.
C17_BlankRhsIsZero ==
    (phase = "done" /\ RhsBlank) =>
        /\ ~RefusedAsEmpty
        /\ Asked(M_differentiate) =>
               /\ ~(Failed /\ out.res.error[2] = "Error parsing RHS: ")
               /\ CallsOf("diff") # {} =>
                      \E i \in CallsOf("sympify") : out.calls[i].arg = <<"0">>
        /\ (out.branch = "preview_equation") =>
               \E lhs \in {Normalize(strip(split(ExprPart, "=", 1)[1]))} :
                   out.res.latex \in
                       {sympy_latex(lhs) \o <<" ", "=", " ">> \o sympy_latex(<<"0">>),
                        TextEscape(lhs \o <<" ", "=", " ", "0">>)}

(***************************************************************************)
(* Sequences of requests by several callers, with the history they leave   *)
(***************************************************************************)
\* most history rows in the sequences of SpecHistory
MaxRows == 2

\* an operation answered at once, one answered through the worker, and a
\* name that is no operation
HistoryModes == {M_simplify, M_integrate, <<"s", "o", "l", "v", "e">>}

\* a POST /api/solve by any caller, while the table has room
HistoryRequest ==
    /\ phase = "idle"
    /\ Len(history) < MaxRows
    /\ \E m \in HistoryModes, t \in ApiTexts, u \in Callers :
         req' = [mode |-> m, expr |-> t, user |-> u]
    /\ phase' = "received"
    /\ UNCHANGED <<out, resp, history>>
    /\ UNCHANGED harness

NextHistory ==
    \/ HistoryRequest
    \/ Simplify
    \/ Integrate
    \/ UnknownMode
    \/ Parent
    \/ Worker
    \/ EndRequest
    \/ ApiClearHistory

SpecHistory == Init /\ [][NextHistory]_vars

\* C18: over any sequence of requests by any callers, a request appends
\* exactly one history row, owned by the caller and holding the request's
\* mode, expression, result and typeset string, iff the operation succeeded
\* and the caller is authenticated; a request that fails, has an unknown
\* mode or comes from an unauthenticated caller leaves every user's history
\* as it was, and so does every step of a request other than its answer.
C18_HistoryOfSuccesses ==
    [][ /\ (phase # "done" /\ phase' = "done") =>
               IF Succeeded' /\ req.user # Anonymous
               THEN history' = Append(history,
                                      [mode |-> ModeOf(req.mode),
                                       expression |-> req.expr,
                                       result |-> out'.res.display,
                                       latex |-> out'.res.latex,
                                       user_id |-> req.user])
               ELSE history' = history
        /\ (phase' # "done" /\ ~(phase = "idle" /\ phase' = "idle")) =>
               history' = history
      ]_vars

\* two users each had a success recorded, the second after the first
C18_Witness ==
    /\ phase = "done" /\ Succeeded /\ Len(history) = 2
    /\ history[1].user_id # history[2].user_id
    /\ history[2].user_id = req.user
    /\ history[2].expression = req.expr
    /\ history[2].result = out.res.display

(***************************************************************************)
(* One integrate request through the harness, to its answer                *)
(***************************************************************************)
NextOnce == IntegrateRequest \/ Integrate \/ Parent \/ Worker

SpecOnce ==
    Init /\ [][NextOnce]_vars /\ WF_vars(Parent) /\ WF_vars(WorkerKilled)

\* C19, as the code has it: whenever the worker has enqueued its result and
\* is alive no more when the parent calls p.is_alive(), _run_with_timeout
\* returns exactly the worker's triple, never the timeout error and never
\* "Worker did not return a result", whatever the interleaving of enqueue,
\* transfer, exit and the parent's steps.
C19_ExitedWorkerIsReturned ==
    (pc = "returned" /\ ~sigterm /\ qpipe # <<>>) =>
        /\ run = wres
        /\ qpipe = <<wres>>
        /\ run \notin {TimedOut, NoWorkerResult}
        /\ out.res = integrate_result(wres, ictx.limits)

\* the timed join ran out on a worker that had enqueued; the worker was gone
\* at the check and its triple was returned
C19_Witness ==
    /\ pc = "returned" /\ expired /\ ~sigterm
    /\ worker = "exited" /\ qpipe # <<>> /\ run = wres

\* C19, as stated: whenever the worker has enqueued its result before the
\* timeout expires, _run_with_timeout returns exactly that triple.
C19_EnqueuedIsReturned ==
    []((pc = "join" /\ worker = "put") => [](pc = "returned" => run = wres))

=============================================================================
